---------------------------- MODULE Spec2Model ----------------------------
(***************************************************************************)
(* Model of src/src/AlexNetNew.py: the AlexNet wrapper class.              *)
(*                                                                         *)
(* The object's state is features, output_prob, states, acc_states and the *)
(* label table; run(frame) is modelled statement by statement, one action  *)
(* per statement that reads or writes the object, so that two callers of   *)
(* the same instance can interleave the way Python threads do.             *)
(*                                                                         *)
(* Probabilities are counted in hundredths (10 is 0.10) and summed         *)
(* exactly.  A tensor is modelled by what it was computed from: the layer  *)
(* and the frame (the network is in eval mode, so its outputs are a        *)
(* function of the frame); the probability vector of a frame is Net(frame).*)
(* The pretrained network, the transform pipeline and the label file are   *)
(* external to the repository: Net, IsImage and labels stand for them.     *)
(***************************************************************************)
EXTENDS Integers, Sequences, FiniteSets, TLC

\* ------------------------------------------------------------------ bounds
\* Number of classes (1000 in the code, line 65), scaled down.
NumClasses == 2
\* Window of the accumulated sum (10000 in the code, line 32), scaled down.
BUFF_SIZE == 2
\* Calls of run() started in one behaviour when the calls are serialised.
MaxCalls == 3
\* Probability (in hundredths) of every class that is not a frame's top class.
LowProb == 1

\* --------------------------------------------------------------- constants
\* The 0.1 of `max_prob.item() > 0.1`, in hundredths.
THRESHOLD == 10
\* The 10 of `[10:]`.
PREFIX_LEN == 10

Classes == 0 .. (NumClasses - 1)
Threads == {"t1", "t2"}

\* ------------------------------------------------------------------ inputs
\* A frame handed to run(): an image whose network output has probability p
\* at class top (at every class when tie) and LowProb elsewhere, or an object
\* that is no image.
ProbLevels == {THRESHOLD - 1, THRESHOLD, THRESHOLD + 1}
ImageFrames ==
    [image : {TRUE}, top : Classes, p : ProbLevels, tie : {FALSE}]
    \cup [image : {TRUE}, top : {0}, p : {THRESHOLD + 1}, tie : {TRUE}]
BadFrame == [image |-> FALSE, top |-> 0, p |-> 0, tie |-> FALSE]
NoFrame == [image |-> FALSE, top |-> -1, p |-> 0, tie |-> FALSE]
Frames == ImageFrames \cup {BadFrame}
\* The frames of unsynchronised callers: one confident image per class.
ConcFrames == {f \in ImageFrames : f.p = THRESHOLD + 1 /\ ~f.tie}

\* Image.fromarray / the transform accept the frame.
IsImage(frame) == frame.image

\* softmax(model(image))[0]: the probability of each class for the frame.
Net(frame) ==
    [n \in Classes |-> IF frame.tie \/ n = frame.top THEN frame.p ELSE LowProb]

\* ----------------------------------------------------------------- tensors
Tensor(layer, frame, flat) == [layer |-> layer, of |-> frame, flat |-> flat]
None == Tensor("None", NoFrame, FALSE)
\* .cpu().numpy() keeps the value; .flatten() reshapes it to one dimension.
Flatten(x) == [x EXCEPT !.flat = TRUE]
\* prob.item() for class n of a probability tensor.
Item(x, n) == Net(x.of)[n]

\* ------------------------------------------------------------- label table
\* Lines of synset_words.txt: a 9-character synset id, a space, the names.
SynsetLines ==
    << <<"n","0","1","4","4","0","7","6","4"," ","t","e","n","c","h",","," ","T","i","n","c","a">>,
       <<"n","0","1","5","1","4","6","6","8"," ","c","o","c","k">>,
       <<"n","0","1","4","4","3","5","3","7"," ","g","o","l","d","f","i","s","h",","," ","C","a","r","a","s","s","i","u","s">> >>
labels == [n \in Classes |-> SynsetLines[(n % Len(SynsetLines)) + 1]]

\* line.split(',')[0]
RECURSIVE SplitFirst(_)
SplitFirst(line) ==
    IF line = <<>> \/ Head(line) = "," THEN <<>>
    ELSE <<Head(line)>> \o SplitFirst(Tail(line))

\* s[k:]
Drop(s, k) == IF k >= Len(s) THEN <<>> ELSE SubSeq(s, k + 1, Len(s))

LabelStripNone(line) == SplitFirst(line)
\* self.labels[label_idx].split(',')[0][10:]
LabelName(line) == Drop(SplitFirst(line), PREFIX_LEN)

Placeholder == <<"-">>

\* ---------------------------------------------------------- pure functions
RECURSIVE SumSeq(_)
SumSeq(s) == IF s = <<>> THEN 0 ELSE Head(s) + SumSeq(Tail(s))

\* s[-k:]
LastN(s, k) == IF Len(s) <= k THEN s ELSE SubSeq(s, Len(s) - k + 1, Len(s))

WindowSumWide(hist) == SumSeq(LastN(hist, BUFF_SIZE + 1))
WindowSumAll(hist) == SumSeq(hist)
\* sum(self.states[n][-self.BUFF_SIZE:])
WindowSum(hist) == SumSeq(LastN(hist, BUFF_SIZE))

\* torch.max(v, dim=0): the maximum and the first index that holds it.
MaxOf(v) == CHOOSE m \in {v[n] : n \in Classes} : \A n \in Classes : v[n] <= m
ArgMaxOf(v) ==
    CHOOSE n \in Classes : v[n] = MaxOf(v) /\ \A k \in Classes : v[k] = MaxOf(v) => n <= k

AboveThresholdLoose(max_prob) == max_prob >= THRESHOLD
\* max_prob.item() > 0.1
AboveThreshold(max_prob) == max_prob > THRESHOLD

AccSeedEmpty == <<>>
\* the [0.0] of acc_states
AccSeed == <<0>>

HistoryTruncated(hist, x) == LastN(Append(hist, x), BUFF_SIZE)
\* self.states[n].append(x)
HistoryAppend(hist, x) == Append(hist, x)

EmptyDict == [x \in {} |-> None]

\* ------------------------------------------------------------------- state
VARIABLES
    features,     \* self.features: key -> tensor
    output_prob,  \* self.output_prob
    states,       \* self.states: class -> list of probabilities
    acc_states,   \* self.acc_states: class -> list of window sums
    local,        \* per caller: position in run() and its local variables
    sync,         \* the callers serialise their calls (an external lock)
    callers,      \* the threads that call run() on the instance
    calls,        \* calls started
    completed,    \* calls that returned
    returned,     \* what each completed call was given and returned
    outcome,      \* the latest call: its frame, and "returned" or "raised"
    pre           \* the object's state when the latest serialised call began

vars == <<features, output_prob, states, acc_states, local, sync, callers,
          calls, completed, returned, outcome, pre>>

Idle ==
    [pc |-> "idle", frame |-> NoFrame, max_prob |-> 0, preds |-> 0,
     new_label |-> <<>>, it |-> None, n |-> 0, s |-> 0]

Snapshot ==
    [features |-> features, output_prob |-> output_prob,
     states |-> states, acc_states |-> acc_states]

\* AlexNet.__init__
InitObject ==
    /\ features = EmptyDict
    /\ output_prob = None
    /\ states = [n \in Classes |-> <<>>]
    /\ acc_states = [n \in Classes |-> AccSeed]
    /\ local = [t \in Threads |-> Idle]
    /\ calls = 0
    /\ completed = 0
    /\ returned = <<>>
    /\ outcome = [kind |-> "none", frame |-> NoFrame]
    /\ pre = Snapshot

Init ==
    /\ InitObject
    /\ callers = {"t1"}
    /\ sync = TRUE

InitConc ==
    /\ InitObject
    /\ callers = Threads
    /\ sync \in BOOLEAN

AllIdle == \A t \in Threads : local[t].pc = "idle"
\* Unsynchronised callers make one call each.
CallLimit == IF sync THEN MaxCalls ELSE Cardinality(callers)
CallFrames == IF sync THEN Frames ELSE ConcFrames

Goto(t, pc) == local' = [local EXCEPT ![t].pc = pc]
At(t, pc) == t \in callers /\ local[t].pc = pc

\* The value a forward hook stores: output.detach() of the layer.
HookValue(name, frame) == Tensor(name, frame, FALSE)

HookNames == {"conv2", "pool5", "fc7"}
PositionalKeys == {"0", "1", "2", "3"}

\* self.features[k] = v
Update(d, k, v) == [x \in (DOMAIN d) \cup {k} |-> IF x = k THEN v ELSE d[x]]

HookUpdateClearing(d, k, v) ==
    [x \in ((DOMAIN d) \cap HookNames) \cup {k} |-> IF x = k THEN v ELSE d[x]]
\* self.features.update({name: output.detach()})
HookUpdate(d, k, v) == Update(d, k, v)

ScoreVectorAccumulated == [n \in Classes |-> acc_states[n][Len(acc_states[n])]]
\* the vector torch.max reads: self.output_prob
ScoreVector == [n \in Classes |-> Item(output_prob, n)]

Feature0Cached ==
    IF "0" \in DOMAIN features THEN features["0"] ELSE Flatten(features["conv2"])
\* self.features['conv2'].cpu().numpy().flatten()
Feature0Value == Flatten(features["conv2"])

\* ----------------------------------------------------------------- actions
\* A caller enters run(frame).  With sync the callers hold an external lock
\* for the whole call, so a call begins only when no other is in progress.
Call(t, frame) ==
    /\ At(t, "idle")
    /\ calls < CallLimit
    /\ frame \in CallFrames
    /\ sync => AllIdle
    /\ local' = [local EXCEPT ![t] = [Idle EXCEPT !.pc = "L115", !.frame = frame]]
    /\ calls' = calls + 1
    /\ outcome' = [kind |-> "none", frame |-> frame]
    /\ pre' = IF sync THEN Snapshot ELSE pre
    /\ UNCHANGED <<features, output_prob, states, acc_states, sync, callers,
                   completed, returned>>

\* line 115: image = self.preprocess_image(frame); raises when the frame is
\* no image, and the exception leaves run().
Preprocess(t) ==
    /\ At(t, "L115")
    /\ IF IsImage(local[t].frame)
       THEN /\ Goto(t, "fwd0")
            /\ UNCHANGED outcome
       ELSE /\ local' = [local EXCEPT ![t] = Idle]
            /\ outcome' = [kind |-> "raised", frame |-> local[t].frame]
    /\ UNCHANGED <<features, output_prob, states, acc_states, sync, callers,
                   calls, completed, returned, pre>>

\* line 119, self.model(image): the forward pass reaches features[3],
\* features[12] and classifier[2] in this order and runs the hook of each.
Hook(t, from, name, to) ==
    /\ At(t, from)
    /\ features' = HookUpdate(features, name, HookValue(name, local[t].frame))
    /\ Goto(t, to)
    /\ UNCHANGED <<output_prob, states, acc_states, sync, callers, calls,
                   completed, returned, outcome, pre>>

HookConv2(t) == Hook(t, "fwd0", "conv2", "fwd1")
HookPool5(t) == Hook(t, "fwd1", "pool5", "fwd2")
HookFc7(t) == Hook(t, "fwd2", "fc7", "fwd3")

\* lines 119-120: the forward pass returns and
\* self.output_prob = softmax(outputs, dim=1)[0]
Softmax(t) ==
    /\ At(t, "fwd3")
    /\ output_prob' = Tensor("prob", local[t].frame, FALSE)
    /\ Goto(t, "L123")
    /\ UNCHANGED <<features, states, acc_states, sync, callers, calls,
                   completed, returned, outcome, pre>>

\* line 123: max_prob, preds = torch.max(self.output_prob, dim=0)
TorchMax(t) ==
    /\ At(t, "L123")
    /\ local' = [local EXCEPT ![t].max_prob = MaxOf(ScoreVector),
                              ![t].preds = ArgMaxOf(ScoreVector),
                              ![t].pc = "L125"]
    /\ UNCHANGED <<features, output_prob, states, acc_states, sync, callers,
                   calls, completed, returned, outcome, pre>>

\* lines 124-129: the label decision (line 124's value is overwritten on
\* both branches of line 125)
Decide(t) ==
    /\ At(t, "L125")
    /\ local' = [local EXCEPT
                   ![t].new_label =
                       IF AboveThreshold(local[t].max_prob)
                       THEN LabelName(labels[local[t].preds])
                       ELSE Placeholder,
                   ![t].pc = "L132"]
    /\ UNCHANGED <<features, output_prob, states, acc_states, sync, callers,
                   calls, completed, returned, outcome, pre>>

\* line 132: enumerate(self.output_prob) reads the attribute once
EnumerateProbs(t) ==
    /\ At(t, "L132")
    /\ local' = [local EXCEPT ![t].it = output_prob, ![t].n = 0,
                              ![t].pc = "L133"]
    /\ UNCHANGED <<features, output_prob, states, acc_states, sync, callers,
                   calls, completed, returned, outcome, pre>>

\* line 133: self.states[n].append(prob.item())
AppendState(t) ==
    /\ At(t, "L133")
    /\ LET n == local[t].n IN
       states' = [states EXCEPT
                    ![n] = HistoryAppend(states[n], Item(local[t].it, n))]
    /\ Goto(t, "L134")
    /\ UNCHANGED <<features, output_prob, acc_states, sync, callers, calls,
                   completed, returned, outcome, pre>>

\* line 134, the argument: sum(self.states[n][-self.BUFF_SIZE:])
SumWindow(t) ==
    /\ At(t, "L134")
    /\ local' = [local EXCEPT ![t].s = WindowSum(states[local[t].n]),
                              ![t].pc = "L134append"]
    /\ UNCHANGED <<features, output_prob, states, acc_states, sync, callers,
                   calls, completed, returned, outcome, pre>>

\* line 134, the call: self.acc_states[n].append(...), and the loop's step
AppendAcc(t) ==
    /\ At(t, "L134append")
    /\ LET n == local[t].n IN
       /\ acc_states' = [acc_states EXCEPT ![n] = Append(acc_states[n], local[t].s)]
       /\ local' = [local EXCEPT
                      ![t].n = n + 1,
                      ![t].pc = IF n + 1 = NumClasses THEN "L136" ELSE "L133"]
    /\ UNCHANGED <<features, output_prob, states, sync, callers, calls,
                   completed, returned, outcome, pre>>

Store(t, from, key, value, to) ==
    /\ At(t, from)
    /\ features' = Update(features, key, value)
    /\ Goto(t, to)
    /\ UNCHANGED <<output_prob, states, acc_states, sync, callers, calls,
                   completed, returned, outcome, pre>>

\* line 136: self.features[3] = self.output_prob.cpu().numpy()
StoreProb(t) == Store(t, "L136", "3", output_prob, "L137")
\* line 137: self.features[2] = self.features['fc7'].cpu().numpy()
StoreFc7(t) == Store(t, "L137", "2", features["fc7"], "L138")
\* line 138: self.features[1] = self.features['pool5'].cpu().numpy().flatten()
StorePool5(t) == Store(t, "L138", "1", Flatten(features["pool5"]), "L139")
\* line 139: self.features[0] = self.features['conv2'].cpu().numpy().flatten()
StoreConv2(t) == Store(t, "L139", "0", Feature0Value, "L141")

\* line 141: return new_label
Return(t) ==
    /\ At(t, "L141")
    /\ returned' = Append(returned,
                          [frame |-> local[t].frame,
                           label |-> local[t].new_label,
                           max_prob |-> local[t].max_prob])
    /\ completed' = completed + 1
    /\ outcome' = [kind |-> "returned", frame |-> local[t].frame]
    /\ local' = [local EXCEPT ![t] = Idle]
    /\ UNCHANGED <<features, output_prob, states, acc_states, sync, callers,
                   calls, pre>>

Next ==
    \E t \in Threads :
        \/ \E frame \in Frames : Call(t, frame)
        \/ Preprocess(t)
        \/ HookConv2(t)
        \/ HookPool5(t)
        \/ HookFc7(t)
        \/ Softmax(t)
        \/ TorchMax(t)
        \/ Decide(t)
        \/ EnumerateProbs(t)
        \/ AppendState(t)
        \/ SumWindow(t)
        \/ AppendAcc(t)
        \/ StoreProb(t)
        \/ StoreFc7(t)
        \/ StorePool5(t)
        \/ StoreConv2(t)
        \/ Return(t)

\* One caller.
Spec == Init /\ [][Next]_vars
\* Two callers of the same instance, serialised by the callers or not.
SpecConc == InitConc /\ [][Next]_vars

\* ------------------------------------------------------------- properties
Max(a, b) == IF a >= b THEN a ELSE b

\* The sum of hist[lo .. hi] (1-based, inclusive).
RECURSIVE SumRange(_, _, _)
SumRange(hist, lo, hi) ==
    IF lo > hi THEN 0 ELSE hist[hi] + SumRange(hist, lo, hi - 1)

\* name is line cut before its first comma, less its first 10 characters.
IsNameOf(name, line) ==
    /\ Len(line) >= 10 + Len(name)
    /\ \A i \in 1 .. (10 + Len(name)) : line[i] # ","
    /\ \A i \in 1 .. Len(name) : name[i] = line[10 + i]
    /\ Len(line) = 10 + Len(name) \/ line[11 + Len(name)] = ","

\* C1: after k completed calls by a single caller every states[n] has length
\* k and every acc_states[n] has length k+1, its first entry being 0.
C1_HistoryGrowth ==
    AllIdle =>
        \A n \in Classes :
            /\ Len(states[n]) = completed
            /\ Len(acc_states[n]) = completed + 1
            /\ acc_states[n][1] = 0

C1_Witness == AllIdle /\ completed >= 2 /\ outcome.kind = "returned"

\* C2: a call returns "-" when the frame's maximum probability is at most
\* 0.10 (exactly 0.10 included) and the name of the label line at an index
\* holding the maximum when it is strictly greater.
C2_ThresholdBoundary ==
    \A i \in DOMAIN returned :
        LET r == returned[i]
            v == Net(r.frame)
        IN  /\ (\A n \in Classes : v[n] <= THRESHOLD) => r.label = Placeholder
            /\ (\E n \in Classes : v[n] > THRESHOLD) =>
                   \E n \in Classes :
                       /\ \A k \in Classes : v[k] <= v[n]
                       /\ IsNameOf(r.label, labels[n])

C2_Witness ==
    \E i, j \in DOMAIN returned :
        /\ returned[i].max_prob = THRESHOLD
        /\ returned[i].label = Placeholder
        /\ returned[j].max_prob = THRESHOLD + 1
        /\ returned[j].label # Placeholder

C4_WindowSum ==
    \A n \in Classes :
        \A i \in 1 .. (Len(acc_states[n]) - 1) :
            /\ i <= Len(states[n])
            /\ acc_states[n][i + 1] =
                   SumRange(states[n], Max(0, i - BUFF_SIZE) + 1, i)

C4_Witness == AllIdle /\ completed > BUFF_SIZE /\ outcome.kind = "returned"

BeforeForwardDone == {"L115", "fwd0", "fwd1", "fwd2", "fwd3"}
InForward(t) == local[t].pc \in BeforeForwardDone

C6_NoWriteBeforeForwardDone ==
    /\ outcome.kind = "raised" => Snapshot = pre
    /\ \A t \in callers : InForward(t) => Snapshot = pre

\* C6 amended: a call that raises (in preprocess) leaves the object as it
\* was; states, acc_states, output_prob and the positional entries of
\* features are written only after the forward pass has succeeded, while the
\* entries conv2, pool5 and fc7 are written by the hooks during it.
C6_OnlyHooksWriteInForward ==
    /\ outcome.kind = "raised" => Snapshot = pre
    /\ \A t \in callers :
           InForward(t) =>
               /\ states = pre.states
               /\ acc_states = pre.acc_states
               /\ output_prob = pre.output_prob
               /\ \A k \in PositionalKeys :
                      /\ k \in DOMAIN features <=> k \in DOMAIN pre.features
                      /\ k \in DOMAIN features => features[k] = pre.features[k]
               /\ \A k \in HookNames :
                      \/ /\ k \in DOMAIN features <=> k \in DOMAIN pre.features
                         /\ k \in DOMAIN features => features[k] = pre.features[k]
                      \/ /\ k \in DOMAIN features
                         /\ features[k] = HookValue(k, local[t].frame)

C6_Witness ==
    /\ completed >= 1
    /\ \E t \in callers :
           /\ local[t].pc = "fwd3"
           /\ features["fc7"].of = local[t].frame
           /\ features["2"].of # local[t].frame

\* A call that raised after an earlier one had completed.
RaisedAfterCompleted == outcome.kind = "raised" /\ completed >= 1 /\ AllIdle

\* C7: two completed calls on the same frame return the same label and the
\* same top probability, whatever was classified before each.
C7_SameFrameSameLabel ==
    \A i, j \in DOMAIN returned :
        returned[i].frame = returned[j].frame =>
            /\ returned[i].label = returned[j].label
            /\ returned[i].max_prob = returned[j].max_prob

C7_Witness ==
    /\ Len(returned) >= 3
    /\ returned[1].frame = returned[3].frame
    /\ returned[2].frame # returned[1].frame
    /\ returned[3].label # Placeholder

\* C8: after a completed call by a single caller features holds exactly the
\* seven entries, each computed from the frame of that call.
FeatureOf(k, frame) ==
    CASE k = "0" -> Tensor("conv2", frame, TRUE)
      [] k = "1" -> Tensor("pool5", frame, TRUE)
      [] k = "2" -> Tensor("fc7", frame, FALSE)
      [] k = "3" -> Tensor("prob", frame, FALSE)
      [] OTHER -> Tensor(k, frame, FALSE)

C8_FeaturesOfLastFrame ==
    (AllIdle /\ completed >= 1) =>
        /\ DOMAIN features = HookNames \cup PositionalKeys
        /\ Cardinality(DOMAIN features) = 7
        /\ \A k \in DOMAIN features :
               features[k] = FeatureOf(k, returned[Len(returned)].frame)

C8_Witness ==
    /\ AllIdle
    /\ completed >= 2
    /\ outcome.kind = "returned"
    /\ returned[Len(returned)].frame # returned[Len(returned) - 1].frame

\* C9: with the calls serialised no entry of acc_states differs from the
\* window sum of the states before it and, between calls, no two entries of
\* features come from different frames; without it such states are reached.
MixedAcc ==
    \E n \in Classes :
        \E i \in 1 .. (Len(acc_states[n]) - 1) :
            \/ i > Len(states[n])
            \/ acc_states[n][i + 1] #
                   SumRange(states[n], Max(0, i - BUFF_SIZE) + 1, i)

MixedFeatures ==
    /\ AllIdle
    /\ \E k1, k2 \in DOMAIN features : features[k1].of # features[k2].of

C9_SerialisedCallsCoherent == sync => (~MixedAcc /\ ~MixedFeatures)

C9_Witness ==
    /\ ~sync
    /\ MixedAcc
    /\ MixedFeatures
    /\ features["3"].of # features["conv2"].of

\* C10: the entry appended on call k is the previous entry plus the new
\* probability minus the one that leaves the window (exact arithmetic).
C10_RunningSum ==
    AllIdle =>
        \A n \in Classes :
            \A k \in 1 .. completed :
                /\ k + 1 <= Len(acc_states[n])
                /\ k <= Len(states[n])
                /\ acc_states[n][k + 1] =
                       acc_states[n][k] + states[n][k]
                       - (IF k > BUFF_SIZE THEN states[n][k - BUFF_SIZE] ELSE 0)

C10_Witness == AllIdle /\ completed = BUFF_SIZE + 1
=============================================================================
